---- MODULE Spec2Model ----
(***************************************************************************)
(* A model of qa_bot.py: a Streamlit script that uploads files to a remote *)
(* vector store, asks retrieval-augmented questions through the Responses  *)
(* API (streaming or not) and keeps a transcript whose assistant turns are *)
(* annotated with the names of the cited files.                            *)
(*                                                                         *)
(* Text is a sequence of chunks.  A chunk is a string; the chunks " " and  *)
(* "\n" are the whitespace characters, every other chunk is a run of       *)
(* characters that neither starts nor ends with whitespace.  The em dash   *)
(* of the sources separator (U+2014) is the chunk "[U+2014]".              *)
(***************************************************************************)
EXTENDS Integers, Sequences, FiniteSets, TLC

VARIABLES
    selected_vs,       \* st.session_state["selected_vs"]
    file_name_by_id,   \* st.session_state["file_name_by_id"]
    uploads_log,       \* st.session_state["uploads_log"]
    last_response_id,  \* st.session_state["last_response_id"]
    messages,          \* st.session_state["messages"]
    vs_list_cache,     \* st.session_state["vs_list_cache"]
    idx,               \* the "Vector Stores" selectbox
    options,           \* how many options the "Vector Stores" selectbox on the
                       \* page has (line 130): 0 while no run has rendered
                       \* it, else "- select -" and the stores listed then
    manual_vs,         \* the "paste a Vector Store ID" text input
    stream_output,     \* the "Stream output" checkbox
    pc,                \* where the script is: "idle" (the run has ended),
                       \* "upload_existing" or "upload_new" (in the loop of
                       \* line 58), "stream" (in the loop of line 229),
                       \* "answer" (after line 238 or 245) or "rerun"
                       \* (st.rerun() was called)
    upload,            \* upload_files_to_vector_store's files and results
    events,            \* the events the loop of line 229 has consumed
    streamed,          \* the chat handler's local `streamed`
    resp,              \* the chat handler's local `resp`
    active_vs,         \* the chat section's local `active_vs`
    calls,             \* the gateway query calls made for the last question
    shown,             \* what the script run has rendered in the chat section
    last,              \* what the last script run was started for
    n_uploaded,        \* how many file ids the remote has assigned
    out,               \* the value response_text_and_citations returned
    notices            \* the notices of lines 44 and 52 the run has rendered

vars == <<selected_vs, file_name_by_id, uploads_log, last_response_id, messages,
          vs_list_cache, idx, manual_vs, stream_output, pc, upload, events,
          streamed, resp, active_vs, calls, shown, last, n_uploaded, out,
          notices, options>>

\* Python's None, for an identifier.  A value of another kind that may be
\* absent is a sequence of at most one member: <<>> when it is None or
\* unbound, <<v>> when it is v.
None == "None"

(***************************************************************************)
(* Text helpers.                                                           *)
(***************************************************************************)

\* str.isspace for one chunk.
IsSpace(c) == c \in {" ", "\n"}

\* str.rstrip(): drop the trailing whitespace.
RECURSIVE RStrip(_)
RStrip(t) ==
    IF t = <<>> THEN <<>>
    ELSE IF IsSpace(t[Len(t)]) THEN RStrip(SubSeq(t, 1, Len(t) - 1))
    ELSE t

\* str.lstrip(): drop the leading whitespace.
RECURSIVE LStrip(_)
LStrip(t) ==
    IF t = <<>> THEN <<>>
    ELSE IF IsSpace(t[1]) THEN LStrip(Tail(t))
    ELSE t

\* str.strip().
Strip(t) == LStrip(RStrip(t))

\* sep.join(parts), for a sequence of texts.
RECURSIVE Join(_, _)
Join(parts, sep) ==
    IF parts = <<>> THEN <<>>
    ELSE IF Len(parts) = 1 THEN parts[1]
    ELSE parts[1] \o sep \o Join(Tail(parts), sep)

\* The members of a sequence.
Range(s) == {s[i] : i \in 1..Len(s)}

(***************************************************************************)
(* response_text_and_citations.                                            *)
(* A response is [id, output_text, output]; output is a sequence of items  *)
(* [type, content]; content is a sequence of parts [type, text,            *)
(* annotations]; an annotation is [type, file_id].                         *)
(***************************************************************************)

\* The texts of the output_text parts of one item (lines 74-77).
PartChunks(c) == IF c.type = "output_text" THEN <<c.text>> ELSE <<>>
RECURSIVE ContentChunks(_)
ContentChunks(content) ==
    IF content = <<>> THEN <<>>
    ELSE PartChunks(content[1]) \o ContentChunks(Tail(content))
ItemChunks(item) ==
    IF item.type = "message" THEN ContentChunks(item.content) ELSE <<>>

\* The texts of the output_text parts of all items (lines 73-77).
RECURSIVE OutputChunks(_)
OutputChunks(output) ==
    IF output = <<>> THEN <<>>
    ELSE ItemChunks(output[1]) \o OutputChunks(Tail(output))

\* "(no text)"
NoText == <<"(no text)">>

\* ExtractText with the segments joined but not stripped.
ExtractText_NoStrip(r) ==
    IF r.output_text # <<>> /\ r.output_text[1] # <<>>
    THEN r.output_text[1]
    ELSE LET joined == Join(OutputChunks(r.output), <<"\n">>)
         IN  IF joined # <<>> THEN joined ELSE NoText

\* Lines 70-78: the answer text before citations.
ExtractText(r) ==
    IF r.output_text # <<>> /\ r.output_text[1] # <<>>
    THEN r.output_text[1]
    ELSE LET chunks == OutputChunks(r.output)
             joined == Strip(Join(chunks, <<"\n">>))
         IN  IF joined # <<>> THEN joined ELSE NoText

\* Lines 88-92: what one annotation adds to cited_names.
CitationKinds == {"file_citation", "vector_store_citation"}

\* Lookup that never consults the registry.
Lookup_RawId(names_by_id, fid) == fid

\* Line 92: file_names_by_id.get(fid, fid)
Lookup(names_by_id, fid) ==
    IF fid \in DOMAIN names_by_id THEN names_by_id[fid] ELSE fid
AnnNames(ann, names_by_id) ==
    IF ann.type \in CitationKinds /\ ann.file_id # None
    THEN <<Lookup(names_by_id, ann.file_id)>>
    ELSE <<>>

\* Lines 86-92: the names cited by the annotations of one part.
RECURSIVE AnnotationsNames(_, _)
AnnotationsNames(anns, names_by_id) ==
    IF anns = <<>> THEN <<>>
    ELSE AnnNames(anns[1], names_by_id) \o AnnotationsNames(Tail(anns), names_by_id)

\* Lines 85-92: the names cited by the parts of one item.
RECURSIVE ContentNames(_, _)
ContentNames(content, names_by_id) ==
    IF content = <<>> THEN <<>>
    ELSE AnnotationsNames(content[1].annotations, names_by_id)
         \o ContentNames(Tail(content), names_by_id)

\* Lines 83-92: the names cited by the message items.
RECURSIVE OutputNames(_, _)
OutputNames(output, names_by_id) ==
    IF output = <<>> THEN <<>>
    ELSE (IF output[1].type = "message"
          THEN ContentNames(output[1].content, names_by_id) ELSE <<>>)
         \o OutputNames(Tail(output), names_by_id)

\* Lines 81-92: cited_names.
CitedNames(r, names_by_id) == OutputNames(r.output, names_by_id)

\* Dedup keeping the last occurrence of a name instead of the first.
RECURSIVE Dedup_KeepLast(_)
Dedup_KeepLast(names) ==
    IF names = <<>> THEN <<>>
    ELSE IF names[1] \in Range(Tail(names)) THEN Dedup_KeepLast(Tail(names))
    ELSE <<names[1]>> \o Dedup_KeepLast(Tail(names))

\* Lines 94-97: dedupe in order.
RECURSIVE DedupFrom(_, _, _)
DedupFrom(names, seen, dedup) ==
    IF names = <<>> THEN dedup
    ELSE IF names[1] \notin seen
         THEN DedupFrom(Tail(names), seen \cup {names[1]}, Append(dedup, names[1]))
         ELSE DedupFrom(Tail(names), seen, dedup)
Dedup(names) == DedupFrom(names, {}, <<>>)

\* "\n\n[U+2014] **Sources:** " and "; "
SourcesSep == <<"\n", "\n", "[U+2014]", " ", "**Sources:**", " ">>
NameSep == <<";", " ">>

\* "; ".join(dedup)
RECURSIVE JoinNames(_)
JoinNames(names) ==
    IF names = <<>> THEN <<>>
    ELSE IF Len(names) = 1 THEN <<names[1]>>
    ELSE <<names[1]>> \o NameSep \o JoinNames(Tail(names))

\* AppendSources without the test of line 98.
AppendSources_Always(text, dedup) ==
    RStrip(text) \o SourcesSep \o JoinNames(dedup)

\* Lines 98-100.
AppendSources(text, dedup) ==
    IF dedup # <<>> THEN RStrip(text) \o SourcesSep \o JoinNames(dedup) ELSE text

\* Lines 68-100.
response_text_and_citations(r, names_by_id) ==
    AppendSources(ExtractText(r), Dedup(CitedNames(r, names_by_id)))

(***************************************************************************)
(* The session before the first script run (lines 103-107) and the widget  *)
(* defaults (lines 28, 122, 130).                                          *)
(***************************************************************************)
NoUpload == [files |-> <<>>, outcomes |-> <<>>, results |-> <<>>]

Init ==
    /\ selected_vs = None
    /\ file_name_by_id = <<>>
    /\ uploads_log = <<>>
    /\ last_response_id = None
    /\ messages = <<>>
    /\ vs_list_cache = <<>>
    /\ idx = 0
    /\ options = 0
    /\ manual_vs = <<>>
    /\ stream_output = TRUE
    /\ pc = "idle"
    /\ events = <<>>
    /\ streamed = <<>>
    /\ resp = <<>>
    /\ active_vs = None
    /\ calls = <<>>
    /\ shown = None
    /\ last = "none"
    /\ upload = NoUpload
    /\ n_uploaded = 0
    /\ out = <<>>
    /\ notices = {}

(***************************************************************************)
(* The remote service, as far as the script sees it: what each call        *)
(* returns or raises.                                                      *)
(***************************************************************************)
MaxBatch == 2       \* files in one upload
MaxInputs == 2      \* questions asked plus file ids assigned in one session
MaxEvents == 2      \* events of one stream

\* client.vector_stores.list: raises, or returns the ids of the stores.
StoreListings ==
    { [raise |-> TRUE, data |-> <<>>],
      [raise |-> FALSE, data |-> <<"vs_1">>] }

\* client.vector_stores.files.list: raises, or returns the file objects of
\* the store, which carry an id and may carry a filename or a display_name:
\* no file, a file uploaded in this session, or the files the store had
\* before the session.
StoreFileListings ==
    { [raise |-> TRUE, data |-> <<>>],
      [raise |-> FALSE, data |-> <<>>],
      [raise |-> FALSE,
       data |-> << [id |-> "file_1", filename |-> <<>>, display_name |-> <<>>] >>],
      [raise |-> FALSE,
       data |-> << [id |-> "file_old", filename |-> <<"old.txt">>,
                    display_name |-> <<>>],
                   [id |-> "file_older", filename |-> <<>>,
                    display_name |-> <<"Old notes">>] >>] }

\* client.vector_stores.create: raises, or returns the new store's id.
CreateOutcomes == {[raise |-> TRUE, id |-> None], [raise |-> FALSE, id |-> "vs_new"]}

\* What the "paste a Vector Store ID" input may hold.
ManualInputs == {<<>>, <<"vs_manual", " ">>}

\* The uploaded files (f.name, len(f.getvalue())).
Files ==
    << [name |-> "notes.pdf", size |-> 3], [name |-> "X.pdf", size |-> 5],
       [name |-> "Y.docx", size |-> 8], [name |-> "a.txt", size |-> 1],
       [name |-> "b.md", size |-> 2], [name |-> "c.csv", size |-> 4] >>
\* The batches of one upload, of one to MaxBatch files: notes.pdf alone,
\* X.pdf with Y.docx, and so on.  A batch can be uploaded again.
Batches == {SubSeq(Files, (n * (n - 1)) \div 2 + 1, (n * (n + 1)) \div 2) :
                n \in 1..MaxBatch}

\* One file's fate in upload_files_to_vector_store: client.files.create
\* raises; or it returns an id and create_and_poll raises, or returns the
\* attached file in the terminal status completed or failed.
UploadOutcomes == {"upload_raises", "poll_raises", "completed", "failed"}

\* The n-th file id the remote assigns: ids are unique.
FileIdOf(n) == <<"file_1", "file_2", "file_3", "file_4", "file_5", "file_6">>[n]

\* The terminal responses the remote may give.
Question == <<"What is the refund policy?">>
Responses ==
    { [id |-> "resp_1", output_text |-> << <<"Refunds within 30 days.">> >>,
       output |-> << [type |-> "file_search_call", content |-> <<>>],
                     [type |-> "message",
                      content |-> << [type |-> "output_text",
                                      text |-> <<"Refunds within 30 days.">>,
                                      annotations |->
                                        << [type |-> "file_citation",
                                            file_id |-> "file_1"] >>] >>] >>],
      [id |-> "resp_2", output_text |-> <<>>,
       output |-> << [type |-> "message",
                      content |-> << [type |-> "output_text",
                                      text |-> <<"See", " ">>,
                                      annotations |->
                                        << [type |-> "file_citation",
                                            file_id |-> "file_2"] >>],
                                     [type |-> "output_text",
                                      text |-> <<"below.", "\n">>,
                                      annotations |-> <<>>] >>] >>] }

\* client.responses.create: raises, or returns a terminal response.
QueryOutcomes ==
    {[raise |-> TRUE, response |-> <<>>]}
    \cup {[raise |-> FALSE, response |-> <<r>>] : r \in Responses}

\* The events of a stream.
Deltas == {<<"Refunds">>, <<" ", "within">>}
StreamEvents ==
    {[type |-> "response.output_text.delta", delta |-> d, response |-> <<>>] :
        d \in Deltas}
    \cup {[type |-> "response.created", delta |-> <<>>, response |-> <<>>]}
    \cup {[type |-> "response.completed", delta |-> <<>>, response |-> <<r>>] :
            r \in Responses}

(***************************************************************************)
(* Helpers (lines 37-66).                                                  *)
(***************************************************************************)

\* Lines 37-45.
list_vector_stores(o) == IF o.raise THEN <<>> ELSE o.data

\* Lines 47-53.
list_store_files(o) == IF o.raise THEN <<>> ELSE o.data

\* d[k] = v
Put(d, k, v) == [x \in DOMAIN d \cup {k} |-> IF x = k THEN v ELSE d[x]]

\* Lines 59-65: the results after the file f, which would get the (n+1)-th
\* file id, met the outcome o.
UploadOne(results, f, o, n) ==
    IF o \in {"upload_raises", "poll_raises"} THEN results
    ELSE Append(results, [file_id |-> FileIdOf(n + 1), filename |-> f.name,
                          bytes |-> f.size])

(***************************************************************************)
(* One script run.  Streamlit runs the script from the top on every user   *)
(* event, so every run starts with Flow A's selection (lines 119-154).     *)
(***************************************************************************)

\* Line 148: the name a listed file is registered under.
ListedName(f) ==
    IF f.filename # <<>> THEN f.filename[1]
    ELSE IF f.display_name # <<>> THEN f.display_name[1]
    ELSE f.id

\* Lines 146-148.
RECURSIVE RegisterListed(_, _)
RegisterListed(reg, files) ==
    IF files = <<>> THEN reg
    ELSE RegisterListed(Put(reg, files[1].id, ListedName(files[1])), Tail(files))

\* Lines 161-163 and 187-189: the registry and the log after the caller's loop.
RECURSIVE RegisterUploads(_, _)
RegisterUploads(reg, info) ==
    IF info = <<>> THEN reg
    ELSE RegisterUploads(Put(reg, info[1].file_id, info[1].filename), Tail(info))

\* LogUploads putting each entry in front of the log.
RECURSIVE LogUploads_Reversed(_, _)
LogUploads_Reversed(log, info) ==
    IF info = <<>> THEN log
    ELSE LogUploads_Reversed(<< <<info[1].filename, info[1].bytes, info[1].file_id>> >> \o log,
                             Tail(info))

RECURSIVE LogUploads(_, _)
LogUploads(log, info) ==
    IF info = <<>> THEN log
    ELSE LogUploads(Append(log, <<info[1].filename, info[1].bytes, info[1].file_id>>),
                    Tail(info))

\* Lines 119-136: the cache, the selectbox and picked_vs, for the widget
\* values i and m and the outcome lvs of listing the stores.
Selection(refresh, i, m, lvs) ==
    LET cache1 == IF refresh THEN <<list_vector_stores(lvs)>> ELSE vs_list_cache
        vs_list == IF cache1 = <<>> THEN list_vector_stores(lvs) ELSE cache1[1]
        ii == IF i <= Len(vs_list) THEN i ELSE 0
    IN  [cache |-> <<vs_list>>,
         idx |-> ii,
         picked |-> IF ii > 0 THEN vs_list[ii]
                    ELSE IF Strip(m) # <<>> THEN Strip(m)[1]
                    ELSE None]

\* Listing emptying the registry when the files cannot be listed.
Listing_ClearOnFailure(sel, lsf) ==
    [selected |-> IF sel.picked # None THEN sel.picked ELSE selected_vs,
     registry |-> IF sel.picked # None
                  THEN (IF lsf.raise THEN <<>>
                        ELSE RegisterListed(file_name_by_id, list_store_files(lsf)))
                  ELSE file_name_by_id]

\* Lines 138-154: selected_vs and the registry after the files are listed.
Listing(sel, lsf) ==
    [selected |-> IF sel.picked # None THEN sel.picked ELSE selected_vs,
     registry |-> IF sel.picked # None
                  THEN RegisterListed(file_name_by_id, list_store_files(lsf))
                  ELSE file_name_by_id]

\* The file listings the remote can give now: a listed file is one a store
\* had before the session, or one the remote has assigned an id to in it.
StoredBefore == {"file_old", "file_older"}
Listable(l) ==
    \A k \in 1..Len(l.data) :
        \/ l.data[k].id \in StoredBefore
        \/ \E n \in 1..n_uploaded : FileIdOf(n) = l.data[k].id
FileListings == {l \in StoreFileListings : Listable(l)}

\* The outcomes a run can see: a call that is not made has one outcome.
ListingsSeen(refresh) ==
    IF refresh \/ vs_list_cache = <<>>
    THEN StoreListings ELSE {[raise |-> FALSE, data |-> <<>>]}
FileListingsSeen(sel) ==
    IF sel.picked # None
    THEN FileListings ELSE {[raise |-> FALSE, data |-> <<>>]}

\* Lines 44 and 52: the notices the listings of a run render, for the
\* outcomes lvs and lsf of listing the stores and the files.
ListingNotices(lvs, lsf) ==
    (IF lvs.raise THEN {"list_info"} ELSE {})
    \cup (IF lsf.raise THEN {"files_warning"} ELSE {})
NotListed == [raise |-> FALSE, data |-> <<>>]

\* The locals of a run that has not reached the chat section's handler.
NoLocals ==
    /\ events' = <<>>
    /\ streamed' = <<>>
    /\ resp' = <<>>
    /\ out' = <<>>

\* Line 195: the chat is enabled when a vector store is active.
ChatEnabled(vs) == vs # None

\* Lines 194-203 when no question is submitted.
ChatIdle(sel_vs) ==
    /\ active_vs' = sel_vs
    /\ shown' = IF ChatEnabled(sel_vs) THEN "chat" ELSE "info"
    /\ calls' = <<>>
    /\ NoLocals

\* A run that Streamlit stops before the chat section: when the user
\* interacts with the page during a run, the next st.* call ends the run
\* with an exception that is no Exception, and the page keeps the chat
\* section of the run before.
RunCut ==
    /\ active_vs' = active_vs
    /\ shown' = "stopped"
    /\ calls' = <<>>
    /\ NoLocals

\* How far a run gets in lines 119-154: stopped before a session write
\* (lines 21-119); after the cache write of line 120 or 127, at line 122 or
\* 130, before the selectbox has run; after the selectbox, before
\* selected_vs is written (line 139, or below line 154 when no store is
\* picked); before the registry is (lines 143-144); in or after the loop of
\* line 146 (lines 151-183); or not stopped.
Stages == {"start", "cached", "picked", "selected", "listed", "end"}

\* The stages a run can be told apart by: a stop after a write the run does
\* not make is the stop before it.
StagesOf(refresh, i, sel) ==
    {"start", "end"}
    \cup (IF refresh \/ vs_list_cache = <<>> THEN {"cached"} ELSE {})
    \cup (IF sel.idx # i \/ options # Len(sel.cache[1]) + 1
          THEN {"picked"} ELSE {})
    \cup (IF sel.picked # None THEN {"selected", "listed"} ELSE {})

\* The file listings a run at the stage can be told apart by, and how many
\* of the listed files the loop of line 146 has registered when the run is
\* stopped at the st.write of line 151 (all of them, in a run that goes on).
ListingsAt(stage, sel) ==
    IF stage = "listed"
    THEN {l \in FileListingsSeen(sel) : l.raise \/ l.data # <<>>}
    ELSE IF stage = "end" THEN FileListingsSeen(sel)
    ELSE {NotListed}
RegisteredAt(stage, lsf) ==
    IF stage = "listed" /\ lsf.data # <<>>
    THEN 1..Len(lsf.data) ELSE {Len(lsf.data)}

\* A run without a button: the page loads, a widget changes, or st.rerun().
\* The widgets keep the values the user gave them wherever the run ends; the
\* selectbox falls back to its first option when it runs and its value is
\* no option any more.  A run that is stopped before the selectbox leaves
\* the selectbox of an earlier run on the page, with the options it had.
RunWith(refresh, i, m, s) ==
    \E lvs \in ListingsSeen(refresh) :
      \E sel \in {Selection(refresh, i, m, lvs)} :
      \E stage \in StagesOf(refresh, i, sel) :
      \E lsf \in ListingsAt(stage, sel) :
      \E k \in RegisteredAt(stage, lsf) :
      \E l \in {Listing(sel, [lsf EXCEPT !.data = SubSeq(@, 1, k)])} :
        /\ vs_list_cache' = IF stage = "start" THEN vs_list_cache ELSE sel.cache
        /\ idx' = IF stage \in {"start", "cached"} THEN i ELSE sel.idx
        /\ options' = IF stage \in {"start", "cached"}
                      THEN options ELSE Len(sel.cache[1]) + 1
        /\ manual_vs' = m
        /\ stream_output' = s
        /\ selected_vs' = IF stage \in {"start", "cached", "picked"}
                          THEN selected_vs ELSE l.selected
        /\ file_name_by_id' = IF stage \in {"listed", "end"}
                              THEN l.registry ELSE file_name_by_id
        /\ IF stage = "end" THEN ChatIdle(l.selected) ELSE RunCut
        /\ pc' = "idle"
        /\ last' = "run"
        /\ notices' = IF stage = "start" THEN {} ELSE ListingNotices(lvs, lsf)
        /\ UNCHANGED <<uploads_log, last_response_id, messages, n_uploaded, upload>>

\* The page loads, or the run st.rerun() asked for.
Rerun ==
    /\ pc \in {"idle", "rerun"}
    /\ RunWith(FALSE, idx, manual_vs, stream_output)

\* The questions asked so far.
Asked == Cardinality({i \in 1..Len(messages) : messages[i].role = "user"})

\* The page has been rendered, at least down to the widgets of lines 28,
\* 119 and 122: a script run has been started.
Rendered == last # "none"

\* Line 119: the "Refresh list" button.
Refresh ==
    /\ pc = "idle" /\ Rendered
    /\ RunWith(TRUE, idx, manual_vs, stream_output)

\* Line 130: the user selects an entry of the "Vector Stores" selectbox
\* the page shows, which may be the one of an earlier run.
SelectStore ==
    /\ pc = "idle"
    /\ \E i \in 0..(options - 1) :
        /\ i # idx
        /\ RunWith(FALSE, i, manual_vs, stream_output)

\* Line 122: the user types into the "paste a Vector Store ID" input.
PasteStoreId ==
    /\ pc = "idle" /\ Rendered
    /\ \E m \in ManualInputs :
        /\ m # manual_vs
        /\ RunWith(FALSE, idx, m, stream_output)

\* Line 28: the user toggles "Stream output".
ToggleStream ==
    /\ pc = "idle" /\ Rendered
    /\ RunWith(FALSE, idx, manual_vs, ~stream_output)

\* The selection of a run that lists no stores (the cache is filled).
Selected == Selection(FALSE, idx, manual_vs, [raise |-> FALSE, data |-> <<>>])

\* The effects of lines 119-154 in a run started by a button or a question.
\* sel is the selection of the run and l the listing of its files.
RunPrefix(sel, l) ==
    /\ selected_vs' = l.selected
    /\ file_name_by_id' = l.registry
    /\ vs_list_cache' = sel.cache
    /\ idx' = sel.idx
    /\ options' = Len(sel.cache[1]) + 1
    /\ UNCHANGED <<manual_vs, stream_output>>

\* Lines 159-160: "Upload to selected store" calls
\* upload_files_to_vector_store.  The button is on the page when a run has
\* rendered it, which a run does after line 140 has written selected_vs.
UploadToSelected ==
    /\ pc = "idle" /\ vs_list_cache # <<>>
    /\ selected_vs # None
    /\ \E sel \in {Selected}, lsf \in FileListings, files \in Batches :
        /\ sel.picked # None
        /\ Asked + n_uploaded + Len(files) <= MaxInputs
        /\ RunPrefix(sel, Listing(sel, lsf))
        /\ notices' = ListingNotices(NotListed, lsf)
        /\ upload' = [files |-> files, outcomes |-> <<>>, results |-> <<>>]
    /\ pc' = "upload_existing"
    /\ last' = "upload"
    /\ shown' = "uploading"
    /\ calls' = <<>>
    /\ UNCHANGED <<uploads_log, last_response_id, messages, n_uploaded,
                   active_vs, events, streamed, resp, out>>

\* Lines 174-180: "Create Vector Store".  The run goes on to its end, or is
\* stopped at line 178, 180 or 183.
CreateStore ==
    /\ pc = "idle" /\ options > 0
    /\ \E sel \in {Selected} :
       \E lsf \in FileListingsSeen(sel), c \in CreateOutcomes :
       \E l \in {Listing(sel, lsf)} :
         LET sel_vs == IF c.raise THEN l.selected ELSE c.id
         IN  /\ RunPrefix(sel, [l EXCEPT !.selected = sel_vs])
             /\ notices' = ListingNotices(NotListed, lsf)
             /\ ChatIdle(sel_vs) \/ RunCut
             /\ last' = IF c.raise THEN "create_failed" ELSE "create"
    /\ pc' = "idle"
    /\ UNCHANGED <<uploads_log, last_response_id, messages, n_uploaded, upload>>

\* Lines 182-186: "Upload to new store" calls upload_files_to_vector_store.
\* The button is on the page when a run has rendered it, which a run does
\* when it finds selected_vs set at line 182.
UploadToNew ==
    /\ pc = "idle" /\ vs_list_cache # <<>>
    /\ selected_vs # None
    /\ \E sel \in {Selected} :
       \E lsf \in FileListingsSeen(sel), files \in Batches :
         /\ Asked + n_uploaded + Len(files) <= MaxInputs
         /\ RunPrefix(sel, Listing(sel, lsf))
         /\ notices' = ListingNotices(NotListed, lsf)
         /\ upload' = [files |-> files, outcomes |-> <<>>, results |-> <<>>]
    /\ pc' = "upload_new"
    /\ last' = "upload"
    /\ shown' = "uploading"
    /\ calls' = <<>>
    /\ UNCHANGED <<uploads_log, last_response_id, messages, n_uploaded,
                   active_vs, events, streamed, resp, out>>

\* Lines 58-65: upload_files_to_vector_store handles the next file.  When
\* the file has failed, the run may be stopped at the st.error of line 65:
\* upload_files_to_vector_store then does not return, its results are lost,
\* the files left are not uploaded and the caller's loop does not run.
UploadFile ==
    /\ pc \in {"upload_existing", "upload_new"}
    /\ Len(upload.outcomes) < Len(upload.files)
    /\ \E o \in UploadOutcomes :
        /\ n_uploaded' = IF o = "upload_raises" THEN n_uploaded ELSE n_uploaded + 1
        /\ \/ /\ upload' = [upload EXCEPT
                              !.outcomes = Append(@, o),
                              !.results = UploadOne(@, upload.files[Len(upload.outcomes) + 1],
                                                    o, n_uploaded)]
              /\ UNCHANGED <<pc, events, streamed, resp, active_vs, calls, shown,
                             last, out>>
           \/ /\ o \in {"upload_raises", "poll_raises"}
              /\ upload' = NoUpload
              /\ pc' = "idle"
              /\ last' = "upload_stopped"
              /\ RunCut
    /\ UNCHANGED <<selected_vs, file_name_by_id, uploads_log, last_response_id,
                   messages, vs_list_cache, idx, manual_vs, stream_output, options, notices>>

\* Lines 66, 161-164 and 187-190: upload_files_to_vector_store returns, the
\* caller's loop runs and the run is stopped at st.success (or, in Flow A,
\* at the st.info of line 44 under line 165), before line 165 writes the
\* cache and line 166 asks for a rerun.
UploadedStopped ==
    /\ pc \in {"upload_existing", "upload_new"}
    /\ Len(upload.outcomes) = Len(upload.files)
    /\ uploads_log' = LogUploads(uploads_log, upload.results)
    /\ file_name_by_id' = RegisterUploads(file_name_by_id, upload.results)
    /\ upload' = NoUpload
    /\ pc' = "idle"
    /\ RunCut
    /\ UNCHANGED <<selected_vs, last_response_id, messages, vs_list_cache, idx,
                   manual_vs, stream_output, options, last, n_uploaded, notices>>

\* Lines 66 and 161-166: upload_files_to_vector_store returns to Flow A.
UploadedToSelected ==
    /\ pc = "upload_existing"
    /\ Len(upload.outcomes) = Len(upload.files)
    /\ uploads_log' = LogUploads(uploads_log, upload.results)
    /\ file_name_by_id' = RegisterUploads(file_name_by_id, upload.results)
    /\ \E lvs \in StoreListings :
        /\ vs_list_cache' = <<list_vector_stores(lvs)>>
        /\ notices' = notices \cup ListingNotices(lvs, NotListed)
    /\ pc' = "rerun"
    /\ upload' = NoUpload
    /\ UNCHANGED <<selected_vs, last_response_id, messages, idx, manual_vs,
                   stream_output, options, events, streamed, resp, active_vs, calls, shown,
                   last, n_uploaded, out>>

\* Lines 66, 187-190 and 194-201: upload_files_to_vector_store returns to
\* Flow B, and the run goes on to its end.
UploadedToNew ==
    /\ pc = "upload_new"
    /\ Len(upload.outcomes) = Len(upload.files)
    /\ uploads_log' = LogUploads(uploads_log, upload.results)
    /\ file_name_by_id' = RegisterUploads(file_name_by_id, upload.results)
    /\ ChatIdle(selected_vs)
    /\ pc' = "idle"
    /\ upload' = NoUpload
    /\ UNCHANGED <<selected_vs, last_response_id, messages, vs_list_cache, idx,
                   manual_vs, stream_output, options, last, n_uploaded, notices>>

(***************************************************************************)
(* The chat section (lines 194-252).                                       *)
(***************************************************************************)

\* One gateway query call (lines 210-218, 228, 237, 244).
Call(api, vs) == [api |-> api, vs |-> vs]

\* TurnText storing what was streamed, when something was.
TurnText_Streamed(r, reg, buffer) ==
    IF buffer # <<>> THEN buffer ELSE response_text_and_citations(r, reg)

\* Lines 239 and 246: the text of the assistant turn for the terminal
\* response r, whatever the stream has delivered into its buffer.
TurnText(r, reg, buffer) == response_text_and_citations(r, reg)

\* Lines 238 and 245: the terminal response r has arrived and its id is
\* stored; nothing of it is rendered or in the transcript yet.
Received(r, msgs, buffer) ==
    /\ last_response_id' = r.id
    /\ resp' = <<r>>
    /\ messages' = msgs
    /\ streamed' = buffer
    /\ events' = <<>>
    /\ out' = <<>>
    /\ shown' = "pending"
    /\ pc' = "answer"

\* Reconcile appending the assistant turn twice (once per rendering).
Reconcile_Twice(r, msgs, reg) ==
    LET text == TurnText(r, reg, streamed) IN
    /\ messages' = msgs \o << [role |-> "assistant", content |-> text],
                              [role |-> "assistant", content |-> text] >>
    /\ shown' = "answer"
    /\ pc' = "idle"
    /\ NoLocals

\* Reconcile putting the assistant turn in the place of the last turn.
Reconcile_Replace(r, msgs, reg) ==
    LET text == TurnText(r, reg, streamed) IN
    /\ messages' = Append(SubSeq(msgs, 1, Len(msgs) - 1),
                          [role |-> "assistant", content |-> text])
    /\ shown' = "answer"
    /\ pc' = "idle"
    /\ NoLocals

\* Lines 239-241 and 246-248: the terminal response r is rendered and becomes
\* an assistant turn, and the run ends.
Reconcile(r, msgs, reg) ==
    LET text == TurnText(r, reg, streamed) IN
    /\ messages' = Append(msgs, [role |-> "assistant", content |-> text])
    /\ shown' = "answer"
    /\ pc' = "idle"
    /\ NoLocals

\* Lines 250-252: the exception is rendered, nothing is stored, and the run
\* ends.
ShowException(msgs) ==
    /\ shown' = "exception"
    /\ messages' = msgs
    /\ pc' = "idle"
    /\ NoLocals
    /\ UNCHANGED last_response_id

\* The run is stopped in the chat handler, at an st.* call after which it
\* would have stored nothing more: nothing more is rendered or stored.
Cut(msgs) ==
    /\ shown' = "stopped"
    /\ messages' = msgs
    /\ pc' = "idle"
    /\ NoLocals
    /\ UNCHANGED last_response_id

\* Lines 250-252: the query has raised; the exception is rendered unless
\* the run is stopped at line 251 or 252.
Raised(msgs) == ShowException(msgs) \/ Cut(msgs)

\* Lines 194-245: the user submits a question in the chat input, which the
\* page has when the last run found a store active (lines 195-203).  The
\* user turn is stored (line 205); the run is stopped at line 206, 207, 222
\* or 223, before the query, or sends the query.
Ask ==
    /\ pc = "idle" /\ vs_list_cache # <<>>
    /\ ChatEnabled(active_vs)
    /\ Asked + n_uploaded < MaxInputs
    /\ last' = "ask"
    /\ UNCHANGED <<uploads_log, n_uploaded, upload>>
    /\ \E sel \in {Selected} :
       \E lsf \in FileListingsSeen(sel) :
       \E l \in {Listing(sel, lsf)} :
         LET msgs == Append(messages, [role |-> "user", content |-> Question])
         IN  /\ RunPrefix(sel, l)
             /\ notices' = ListingNotices(NotListed, lsf)
             /\ active_vs' = l.selected
             /\ \/ /\ calls' = <<>>
                   /\ Cut(msgs)
                \/ /\ stream_output
                   /\ calls' = <<Call("stream", l.selected)>>
                   /\ \/ /\ pc' = "stream"
                         /\ shown' = "streaming"
                         /\ messages' = msgs
                         /\ NoLocals
                         /\ UNCHANGED last_response_id
                      \/ Raised(msgs)
                \/ /\ ~stream_output
                   /\ calls' = <<Call("create", l.selected)>>
                   /\ \E o \in QueryOutcomes :
                        IF o.raise
                        THEN Raised(msgs)
                        ELSE Received(o.response[1], msgs, <<>>)

\* The variables the loop of lines 229-234 leaves alone.
StreamFrame ==
    UNCHANGED <<selected_vs, file_name_by_id, uploads_log, vs_list_cache, idx,
                manual_vs, stream_output, options, active_vs, last, n_uploaded, upload,
                notices>>

\* ApplyDelta putting the delta in front of the buffer.
ApplyDelta_Prepend(buffer, delta) == delta \o buffer

\* Line 231: streamed += event.delta
ApplyDelta(buffer, delta) == buffer \o delta

\* Lines 229-234: the stream delivers an event.  After a delta the run may
\* be stopped at the placeholder.markdown of line 232: the stream is
\* abandoned and nothing is stored.
StreamEvent ==
    /\ pc = "stream"
    /\ Len(events) < MaxEvents
    /\ \E e \in StreamEvents :
        \/ /\ events' = Append(events, e)
           /\ IF e.type = "response.output_text.delta"
              THEN streamed' = ApplyDelta(streamed, e.delta) /\ resp' = resp
              ELSE IF e.type = "response.completed"
              THEN resp' = e.response /\ streamed' = streamed
              ELSE UNCHANGED <<streamed, resp>>
           /\ UNCHANGED <<pc, messages, last_response_id, shown, out>>
        \/ /\ e.type = "response.output_text.delta"
           /\ Cut(messages)
    /\ UNCHANGED calls
    /\ StreamFrame

\* Lines 229 and 250-252: the stream raises.
StreamRaises ==
    /\ pc = "stream"
    /\ Raised(messages)
    /\ UNCHANGED calls
    /\ StreamFrame

\* StreamEnds without the fallback of lines 236-237: the buffer is stored.
StreamEnds_NoFallback ==
    /\ pc = "stream"
    /\ StreamFrame
    /\ UNCHANGED calls
    /\ IF resp = <<>>
       THEN /\ messages' = Append(messages, [role |-> "assistant", content |-> streamed])
            /\ shown' = "answer"
            /\ pc' = "idle"
            /\ NoLocals
            /\ UNCHANGED last_response_id
       ELSE Received(resp[1], messages, streamed)

\* StreamEnds issuing the non-streaming query whatever the stream delivered.
StreamEnds_AlwaysFallback ==
    /\ pc = "stream"
    /\ StreamFrame
    /\ calls' = Append(calls, Call("create", active_vs))
    /\ \E o \in QueryOutcomes :
         IF o.raise
         THEN Raised(messages)
         ELSE Received(o.response[1], messages, streamed)

\* Lines 235-238: the stream ends, and the terminal response is the one of
\* the completed event or, without one, the one of a non-streaming query.
StreamEnds ==
    /\ pc = "stream"
    /\ StreamFrame
    /\ IF resp = <<>>
       THEN /\ calls' = Append(calls, Call("create", active_vs))
            /\ \E o \in QueryOutcomes :
                 IF o.raise
                 THEN Raised(messages)
                 ELSE Received(o.response[1], messages, streamed)
       ELSE /\ UNCHANGED calls
            /\ Received(resp[1], messages, streamed)

\* Lines 239-241 and 246-248: the answer is rendered and stored.
Answer ==
    /\ pc = "answer"
    /\ Reconcile(resp[1], messages, file_name_by_id)
    /\ UNCHANGED <<last_response_id, calls>>
    /\ StreamFrame

\* Lines 240 and 247: the user interacted with the page while the query was
\* pending, and Streamlit stops the script at the next st.* call with an
\* exception that line 250 does not catch: the run ends before line 241/248.
Stopped ==
    /\ pc = "answer"
    /\ shown' = "stopped"
    /\ pc' = "idle"
    /\ NoLocals
    /\ UNCHANGED <<messages, last_response_id, calls>>
    /\ StreamFrame

Next ==
    \/ Rerun
    \/ Refresh
    \/ SelectStore
    \/ PasteStoreId
    \/ ToggleStream
    \/ UploadToSelected
    \/ CreateStore
    \/ UploadToNew
    \/ UploadFile
    \/ UploadedStopped
    \/ UploadedToSelected
    \/ UploadedToNew
    \/ Ask
    \/ StreamEvent
    \/ StreamRaises
    \/ StreamEnds
    \/ Answer
    \/ Stopped

Spec == Init /\ [][Next]_vars

(***************************************************************************)
(* response_text_and_citations on its own: a response is built node by     *)
(* node from bounded sets and resolved against a registry.                 *)
(***************************************************************************)
MaxNodes == 5

FileIds == {"a", "b", "c"}
ItemTypes == {"message", "file_search_call"}
PartTypes == {"output_text", "refusal"}
PartTexts == {<<"A">>, <<" ", "B", "\n">>, <<>>}
OutputTexts == {<<>>, << <<>> >>, << <<"Hi", " ">> >>}
AnnChoices ==
    { [type |-> "file_citation", file_id |-> "a"],
      [type |-> "vector_store_citation", file_id |-> "b"],
      [type |-> "file_citation", file_id |-> "c"],
      [type |-> "url_citation", file_id |-> "a"],
      [type |-> "file_citation", file_id |-> None] }
Registries ==
    { <<>>,
      [i \in {"a", "b"} |-> IF i = "a" THEN "X.pdf" ELSE "Y.docx"],
      [i \in {"a", "b", "c"} |-> IF i = "c" THEN "a" ELSE "X.pdf"] }

\* A response whose annotations cite the file ids a, a, b, c, b.
ExampleCites == <<"a", "a", "b", "c", "b">>
ExampleResponse ==
    [id |-> "resp_1", output_text |-> << <<"Hi", " ">> >>,
     output |-> << [type |-> "message",
                    content |-> << [type |-> "output_text", text |-> <<"A">>,
                                    annotations |->
                                        [k \in 1..Len(ExampleCites) |->
                                            [type |-> "file_citation",
                                             file_id |-> ExampleCites[k]]]] >>] >>]

\* The number of items, parts and annotations of a response.
RECURSIVE ContentNodes(_)
ContentNodes(content) ==
    IF content = <<>> THEN 0
    ELSE 1 + Len(content[1].annotations) + ContentNodes(Tail(content))
RECURSIVE OutputNodes(_)
OutputNodes(output) ==
    IF output = <<>> THEN 0
    ELSE 1 + ContentNodes(output[1].content) + OutputNodes(Tail(output))
Nodes(r) == OutputNodes(r.output)

\* The session variables the resolver neither reads nor writes.
RTCFrame ==
    UNCHANGED <<selected_vs, uploads_log, last_response_id, messages,
                vs_list_cache, idx, manual_vs, stream_output, options, upload, events,
                streamed, active_vs, calls, shown, last, n_uploaded, notices>>

InitRTC ==
    /\ selected_vs = None
    /\ file_name_by_id \in Registries
    /\ uploads_log = <<>>
    /\ last_response_id = None
    /\ messages = <<>>
    /\ vs_list_cache = <<>>
    /\ idx = 0
    /\ options = 0
    /\ manual_vs = <<>>
    /\ stream_output = TRUE
    /\ pc = "build"
    /\ events = <<>>
    /\ streamed = <<>>
    /\ resp \in [id : {"resp_1"}, output_text : OutputTexts, output : {<<>>}]
                \cup {ExampleResponse}
    /\ active_vs = None
    /\ calls = <<>>
    /\ shown = None
    /\ last = "none"
    /\ upload = NoUpload
    /\ n_uploaded = 0
    /\ out = <<>>
    /\ notices = {}

\* The remote adds an output item to the response.
BuildItem ==
    /\ pc = "build"
    /\ Nodes(resp) < MaxNodes
    /\ \E t \in ItemTypes :
        resp' = [resp EXCEPT !.output = Append(@, [type |-> t, content |-> <<>>])]
    /\ UNCHANGED <<file_name_by_id, pc, out>>
    /\ RTCFrame

\* The remote adds a content part to the last item.
BuildPart ==
    /\ pc = "build"
    /\ Nodes(resp) < MaxNodes
    /\ resp.output # <<>>
    /\ \E t \in PartTypes, x \in PartTexts :
        resp' = [resp EXCEPT !.output[Len(resp.output)].content =
                    Append(@, [type |-> t, text |-> x, annotations |-> <<>>])]
    /\ UNCHANGED <<file_name_by_id, pc, out>>
    /\ RTCFrame

\* The remote adds an annotation to the last part of the last item.
BuildAnnotation ==
    /\ pc = "build"
    /\ Nodes(resp) < MaxNodes
    /\ resp.output # <<>>
    /\ resp.output[Len(resp.output)].content # <<>>
    /\ \E ann \in AnnChoices :
        LET i == Len(resp.output)
            j == Len(resp.output[i].content)
        IN  resp' = [resp EXCEPT !.output[i].content[j].annotations = Append(@, ann)]
    /\ UNCHANGED <<file_name_by_id, pc, out>>
    /\ RTCFrame

\* text = response_text_and_citations(resp)
Resolve ==
    /\ pc = "build"
    /\ pc' = "resolved"
    /\ out' = response_text_and_citations(resp, file_name_by_id)
    /\ UNCHANGED <<file_name_by_id, resp>>
    /\ RTCFrame

NextRTC == BuildItem \/ BuildPart \/ BuildAnnotation \/ Resolve

SpecRTC == InitRTC /\ [][NextRTC]_vars

(***************************************************************************)
(* Properties of response_text_and_citations (checked under SpecRTC).      *)
(* The annotations and text segments of a response are addressed by their  *)
(* positions <<item, part, annotation>> and <<item, part>>, in document    *)
(* order.                                                                  *)
(***************************************************************************)

\* Document order on positions of the same length.
RECURSIVE Before(_, _)
Before(p, q) ==
    IF p = <<>> THEN FALSE
    ELSE IF p[1] # q[1] THEN p[1] < q[1]
    ELSE Before(Tail(p), Tail(q))

\* The positions of the parts of the message items, and of their annotations.
PartPositions(r) ==
    UNION { {<<i, j>> : j \in 1..Len(r.output[i].content)} :
            i \in {i \in 1..Len(r.output) : r.output[i].type = "message"} }
AnnotationPositions(r) ==
    UNION { {<<p[1], p[2], k>> :
                k \in 1..Len(r.output[p[1]].content[p[2]].annotations)} :
            p \in PartPositions(r) }
PartAt(r, p) == r.output[p[1]].content[p[2]]
AnnotationAt(r, p) == r.output[p[1]].content[p[2]].annotations[p[3]]

\* The file/vector-store citation annotations that carry a file id.
Citations(r) ==
    { p \in AnnotationPositions(r) :
        /\ AnnotationAt(r, p).type \in {"file_citation", "vector_store_citation"}
        /\ AnnotationAt(r, p).file_id # None }

\* The display name of the citation at p: the registry name, else the raw id.
CitedName(r, reg, p) ==
    LET fid == AnnotationAt(r, p).file_id
    IN  IF fid \in DOMAIN reg THEN reg[fid] ELSE fid

\* The cited names, each once, ordered by first occurrence.
ExpectedSources(r, reg) ==
    LET N == {CitedName(r, reg, p) : p \in Citations(r)}
        First(n) ==
            CHOOSE p \in Citations(r) :
                /\ CitedName(r, reg, p) = n
                /\ \A q \in Citations(r) :
                      CitedName(r, reg, q) = n => (q = p \/ Before(p, q))
        Rank(n) == 1 + Cardinality({m \in N : Before(First(m), First(n))})
    IN  [i \in 1..Cardinality(N) |-> CHOOSE n \in N : Rank(n) = i]

\* The text segments of the message items, in order.
Segments(r) ==
    LET P == {p \in PartPositions(r) : PartAt(r, p).type = "output_text"}
        Rank(p) == 1 + Cardinality({q \in P : Before(q, p)})
    IN  [i \in 1..Cardinality(P) |-> PartAt(r, CHOOSE p \in P : Rank(p) = i).text]

\* The texts of a sequence, one after the other.
RECURSIVE Concat(_)
Concat(ts) == IF ts = <<>> THEN <<>> ELSE ts[1] \o Concat(Tail(ts))

\* The returned text made of an answer text and a list of sources.
WithSources(answer, sources) ==
    IF sources = <<>> THEN answer
    ELSE RStrip(answer)
         \o <<"\n", "\n", "[U+2014]", " ", "**Sources:**", " ">>
         \o Join([i \in 1..Len(sources) |-> <<sources[i]>>], <<";", " ">>)

ExampleRegistry == [i \in {"a", "b"} |-> IF i = "a" THEN "X.pdf" ELSE "Y.docx"]

\* C3: the returned text ends with a sources line that lists the registry
\* name (or the raw id, when unregistered) of every file/vector-store citation
\* annotation carrying a file id, each name once, in first-occurrence order;
\* citations of a, a, b, c, b with a -> X.pdf, b -> Y.docx give
\* "X.pdf; Y.docx; c".
Thm_C3_SourcesLine ==
    pc = "resolved" =>
        /\ out = WithSources(ExtractText(resp), ExpectedSources(resp, file_name_by_id))
        /\ (resp = ExampleResponse /\ file_name_by_id = ExampleRegistry) =>
              out = <<"Hi", "\n", "\n", "[U+2014]", " ", "**Sources:**", " ",
                      "X.pdf", ";", " ", "Y.docx", ";", " ", "c">>

\* The example of C3 has been resolved.
Wit_C3_Example ==
    /\ pc = "resolved"
    /\ resp = ExampleResponse
    /\ file_name_by_id = ExampleRegistry
    /\ Len(out) > 7

\* The answer text the amended C9 describes.
ExpectedAnswer(r) ==
    IF r.output_text # <<>> /\ r.output_text[1] # <<>>
    THEN r.output_text[1]
    ELSE LET joined == Strip(Join(Segments(r), <<"\n">>))
         IN  IF joined = <<>> THEN <<"(no text)">> ELSE joined

\* The answer text C9 describes.
ClaimedAnswer(r) ==
    IF r.output_text # <<>> /\ r.output_text[1] # <<>>
    THEN r.output_text[1]
    ELSE IF Segments(r) = <<>> THEN <<"(no text)">>
    ELSE Concat(Segments(r))

\* C9 (as stated): the answer text is the non-empty outputText verbatim,
\* else the concatenation of the text segments in order, else (no segments)
\* the placeholder.
Cex_C9_Concatenation ==
    pc = "resolved" =>
        out = WithSources(ClaimedAnswer(resp), Dedup(CitedNames(resp, file_name_by_id)))

\* C9 (amended): the answer text is the non-empty outputText, else the text
\* segments of the message items joined by a newline and stripped of leading
\* and trailing whitespace, else (when that is empty) the placeholder
\* "(no text)"; trailing whitespace goes when a sources line is appended.
Thm_C9_TwoTierExtraction ==
    pc = "resolved" =>
        out = WithSources(ExpectedAnswer(resp), Dedup(CitedNames(resp, file_name_by_id)))

\* A response without outputText and with two text segments has been resolved.
Wit_C9_TwoSegments ==
    /\ pc = "resolved"
    /\ resp.output_text = <<>>
    /\ Len(Segments(resp)) = 2
    /\ Segments(resp)[1] # <<>>
    /\ Segments(resp)[2] # <<>>
    /\ "\n" \in Range(out)

\* C10: a response without a resolvable citation annotation gets its
\* extracted answer text back unmodified, with no sources line.
Thm_C10_NoSourcesLine ==
    (pc = "resolved" /\ Citations(resp) = {}) =>
        /\ out = ExpectedAnswer(resp)
        /\ "**Sources:**" \notin Range(out)
        /\ "[U+2014]" \notin Range(out)

\* A response whose only annotations are not resolvable has been resolved.
Wit_C10_OnlyOtherAnnotations ==
    /\ pc = "resolved"
    /\ Citations(resp) = {}
    /\ AnnotationPositions(resp) # {}
    /\ resp.output_text # <<>>
    /\ out = resp.output_text[1]

(***************************************************************************)
(* Properties of the session (checked under Spec).                         *)
(***************************************************************************)

Uploading == {"upload_existing", "upload_new"}

\* The files of an upload that did not raise, and the results they give when
\* the remote had assigned n0 file ids before.
Succeeded(outcomes) ==
    {i \in 1..Len(outcomes) : outcomes[i] \notin {"upload_raises", "poll_raises"}}
Assigned(outcomes) ==
    Cardinality({i \in 1..Len(outcomes) : outcomes[i] # "upload_raises"})
ExpectedResults(files, outcomes, n0) ==
    LET S == Succeeded(outcomes)
        Nth(k) == CHOOSE i \in S : Cardinality({j \in S : j < i}) = k - 1
        IdOf(i) ==
            FileIdOf(n0 + Cardinality({j \in 1..i : outcomes[j] # "upload_raises"}))
    IN  [k \in 1..Cardinality(S) |->
            [file_id |-> IdOf(Nth(k)), filename |-> files[Nth(k)].name,
             bytes |-> files[Nth(k)].size]]

\* C1 (as stated): a file that raises does not end the batch: while files
\* are left the next one is handled whatever the outcomes before it, and the
\* results so far are the files that did not raise, in submission order.
\* The upload is left only when every file has been handled, and the
\* caller's update has then added to the uploads log and to the registry the
\* entries of the files that did not raise and nothing else.
Cex_C1_PartialFailure ==
    [][/\ (pc \in Uploading /\ pc' \in Uploading) =>
             /\ Len(upload.outcomes) < Len(upload.files)
             /\ Len(upload'.outcomes) = Len(upload.outcomes) + 1
             /\ upload'.results =
                    ExpectedResults(upload.files, upload'.outcomes,
                                    n_uploaded' - Assigned(upload'.outcomes))
             /\ uploads_log' = uploads_log
             /\ file_name_by_id' = file_name_by_id
       /\ (pc \in Uploading /\ pc' \notin Uploading) =>
             LET E == ExpectedResults(upload.files, upload.outcomes,
                                      n_uploaded - Assigned(upload.outcomes))
                 ids == {E[k].file_id : k \in 1..Len(E)}
             IN  /\ Len(upload.outcomes) = Len(upload.files)
                 /\ upload.results = E
                 /\ uploads_log' =
                      uploads_log
                      \o [k \in 1..Len(E) |->
                            <<E[k].filename, E[k].bytes, E[k].file_id>>]
                 /\ DOMAIN file_name_by_id' = DOMAIN file_name_by_id \cup ids
                 /\ \A k \in 1..Len(E) :
                       file_name_by_id'[E[k].file_id] = E[k].filename
                 /\ \A i \in DOMAIN file_name_by_id \ ids :
                       file_name_by_id'[i] = file_name_by_id[i]
    ]_vars

\* C2: a file is among the results of an upload only if its attach-and-wait
\* ended in the status completed (indexed).
Cex_C2_OnlyIndexed ==
    \A k \in 1..Len(upload.results) :
        \E i \in 1..Len(upload.outcomes) :
            /\ upload.files[i].name = upload.results[k].filename
            /\ upload.outcomes[i] = "completed"

\* The response with the id i.
ResponseOf(i) == CHOOSE r \in Responses : r.id = i

\* The text C3, C9 and C10 give for the response r under the registry reg.
ReconciledText(r, reg) == WithSources(ExpectedAnswer(r), ExpectedSources(r, reg))

\* s is a prefix of t.
IsPrefix(s, t) == Len(s) <= Len(t) /\ SubSeq(t, 1, Len(s)) = s

\* The non-empty prefixes of the stream's buffer.
Partial(buffer) == {SubSeq(buffer, 1, k) : k \in 1..Len(buffer)}

\* The last turn of a transcript.
LastTurn(msgs) == msgs[Len(msgs)]

\* C4: when the stream ends without a completed event, a non-streaming
\* query is issued after the one streaming call; the end of the stream itself
\* adds nothing to the transcript; and when the fallback has returned a
\* response and the run goes on to its end, the transcript gains exactly one
\* assistant turn after the question: the reconciled text of the fallback
\* response, not the buffer.
Thm_C4_Fallback ==
    [][/\ (pc = "stream" /\ resp = <<>> /\ calls' # calls) =>
             /\ calls' = Append(calls, [api |-> "create", vs |-> active_vs])
             /\ Len(calls) = 1
       /\ (pc = "stream" /\ pc' = "answer" /\ resp = <<>>) =>
             /\ calls' # calls
             /\ resp' \in {<<r>> : r \in Responses}
       /\ pc = "stream" => messages' = messages
       /\ (pc = "answer" /\ Len(calls) = 2 /\ shown' = "answer") =>
             /\ LastTurn(messages).role = "user"
             /\ messages' =
                  Append(messages,
                         [role |-> "assistant",
                          content |-> ReconciledText(resp[1], file_name_by_id)])
             /\ LastTurn(messages').content \notin Partial(streamed)
    ]_vars

\* A stream that delivered a delta and no completed event was followed by
\* the fallback query, and the answer is in the transcript.
Wit_C4_FallbackAnswered ==
    /\ pc = "idle"
    /\ Len(calls) = 2
    /\ calls[1].api = "stream"
    /\ calls[2].api = "create"
    /\ shown = "answer"
    /\ LastTurn(messages).role = "assistant"

\* C5: the assistant turn is the reconciled text of the terminal response
\* under the registry, whether the response came from the completed event of
\* a stream (after any deltas) or from a non-streaming call.
Thm_C5_SameTurnEitherMode ==
    [][(messages' # messages /\ LastTurn(messages').role = "assistant"
           /\ Len(calls') = 1) =>
        /\ last_response_id' \in {r.id : r \in Responses}
        /\ resp = <<ResponseOf(last_response_id')>>
        /\ LastTurn(messages') =
             [role |-> "assistant",
              content |-> ReconciledText(ResponseOf(last_response_id'),
                                         file_name_by_id')]
    ]_vars

\* A stream delivered its completed event and the answer is in the
\* transcript without a fallback call.
Wit_C5_StreamCompleted ==
    /\ pc = "idle"
    /\ Len(calls) = 1
    /\ calls[1].api = "stream"
    /\ shown = "answer"
    /\ LastTurn(messages).role = "assistant"
    /\ "**Sources:**" \in Range(LastTurn(messages).content)

\* C6: after a query has raised, the transcript ends with an assistant-role
\* entry for the failure.
Cex_C6_FailureTurn ==
    shown = "exception" =>
        /\ messages # <<>>
        /\ LastTurn(messages).role = "assistant"

RefundScenario ==
    /\ pc = "idle"
    /\ last = "ask"
    /\ selected_vs = "vs_new"
    /\ uploads_log = << <<"notes.pdf", 3, "file_1">> >>
    /\ file_name_by_id = [i \in {"file_1"} |-> "notes.pdf"]
    /\ Len(messages) = 2
    /\ messages[1] = [role |-> "user", content |-> <<"What is the refund policy?">>]
    /\ messages[2].role = "assistant"
    /\ last_response_id = "resp_1"

\* C8 (as stated): the assistant turn is
\* "Refunds within 30 days.\n\n[U+2014] Sources: notes.pdf".
Cex_C8_PlainSourcesLine ==
    RefundScenario =>
        messages[2].content =
            <<"Refunds within 30 days.", "\n", "\n", "[U+2014]", " ", "Sources:", " ",
              "notes.pdf">>

\* C8 (amended): the assistant turn is
\* "Refunds within 30 days.\n\n[U+2014] **Sources:** notes.pdf".
Thm_C8_RefundScenario ==
    RefundScenario =>
        messages[2].content =
            <<"Refunds within 30 days.", "\n", "\n", "[U+2014]", " ", "**Sources:**",
              " ", "notes.pdf">>

\* The scenario of C8 has run.
Wit_C8_RefundScenario == RefundScenario /\ shown = "answer"

\* Every file of the upload was attached and indexed.
AllIndexed(outcomes) == \A i \in 1..Len(outcomes) : outcomes[i] = "completed"

\* C11: when an upload of N files that were all indexed returns, the caller's
\* update gives the registry exactly N new entries, the remote-assigned id of
\* each file mapped to the file's name, changes no other entry, and appends
\* to the uploads log the N entries of the files in submission order.
Thm_C11_BatchRegistered ==
    [][(pc \in Uploading /\ pc' \notin Uploading
          /\ Len(upload.outcomes) = Len(upload.files)
          /\ AllIndexed(upload.outcomes)) =>
        LET N == Len(upload.files)
            n0 == n_uploaded - N
            new == DOMAIN file_name_by_id' \ DOMAIN file_name_by_id
        IN  /\ Len(upload.outcomes) = N
            /\ Cardinality(new) = N
            /\ new = {FileIdOf(n0 + k) : k \in 1..N}
            /\ \A k \in 1..N :
                  file_name_by_id'[FileIdOf(n0 + k)] = upload.files[k].name
            /\ \A i \in DOMAIN file_name_by_id :
                  file_name_by_id'[i] = file_name_by_id[i]
            /\ Len(uploads_log') = Len(uploads_log) + N
            /\ SubSeq(uploads_log', 1, Len(uploads_log)) = uploads_log
            /\ \A k \in 1..N :
                  uploads_log'[Len(uploads_log) + k] =
                      <<upload.files[k].name, upload.files[k].size, FileIdOf(n0 + k)>>
    ]_vars

\* A second upload, of one file that was indexed, is about to return to its
\* caller: the log and the registry have the entry of the first upload, and
\* the registry an entry of a listing as well.
Wit_C11_SecondUpload ==
    /\ pc \in Uploading
    /\ Len(upload.files) = 1
    /\ upload.outcomes = <<"completed">>
    /\ upload.results[1].file_id = "file_2"
    /\ Len(uploads_log) = 1
    /\ {"file_1", "file_old"} \subseteq DOMAIN file_name_by_id

\* C12: the registry is append-only: at every step, whatever it is (a
\* selection, a listing, an upload or a query), every entry present before
\* the step is present after it with the same name.
Cex_C12_AppendOnly ==
    [][\A i \in DOMAIN file_name_by_id :
          /\ i \in DOMAIN file_name_by_id'
          /\ file_name_by_id'[i] = file_name_by_id[i]
    ]_vars

\* C13: every step leaves the transcript as it was or extends it (so every
\* earlier transcript is a prefix of every later one), and an assistant turn
\* it appends is the reconciled, citation-annotated text of a terminal
\* response, never the streaming buffer or a part of it.
Thm_C13_AppendOnlyTranscript ==
    [][/\ IsPrefix(messages, messages')
       /\ (messages' # messages /\ LastTurn(messages').role = "assistant") =>
             /\ \E r \in Responses :
                   LastTurn(messages').content = ReconciledText(r, file_name_by_id')
             /\ LastTurn(messages').content \notin Partial(streamed)
             /\ \A i \in (Len(messages) + 1)..(Len(messages') - 1) :
                   messages'[i].role = "user"
    ]_vars

\* Two questions were answered, the second through a stream, and both
\* answers are in the transcript after their questions.
Wit_C13_TwoAnswers ==
    /\ pc = "idle"
    /\ Len(messages) = 4
    /\ messages[2].role = "assistant"
    /\ messages[4].role = "assistant"
    /\ messages[2].content # messages[4].content
    /\ calls = <<[api |-> "stream", vs |-> active_vs]>>

\* The identifier typed into the manual input, None when it is blank.
ManualId(m) == IF Strip(m) # <<>> THEN Strip(m)[1] ELSE None

\* C14 (as stated): a run in which listing the stores failed, started while
\* the active index was the one the widgets select (or none is selected),
\* leaves the active index and the transcript as they were; a run in which
\* listing the files failed leaves the registry as it was.
Cex_C14_StateUnchanged ==
    [][/\ (pc = "idle" /\ "list_info" \in notices'
              /\ Selected.picked \in {None, selected_vs}) =>
             /\ selected_vs' = selected_vs
             /\ messages' = messages
       /\ (pc = "idle" /\ "files_warning" \in notices') =>
             file_name_by_id' = file_name_by_id
    ]_vars

\* C14 (amended): a failed listing does not raise: the run goes on with an
\* empty list.  After a failed listing of the stores the selector offers no
\* store, so the active index is the manual identifier when one is entered
\* (the chat is then enabled and a question is queried against it) and is
\* unchanged otherwise; the transcript is unchanged, and so is the registry
\* unless the files of the manual identifier's store are listed.  After a
\* failed listing of the files the registry is unchanged and the transcript
\* loses nothing.  A run that is stopped on a further user interaction may
\* end before the selector is evaluated again, the active index is set, the
\* chat is rendered or the query is sent: the active index is then as it
\* was or already the manual identifier.
Thm_C14_BestEffortListing ==
    [][/\ (pc = "idle" /\ "list_info" \in notices') =>
             /\ pc' = "idle"
             /\ vs_list_cache' = << <<>> >>
             /\ selected_vs' \in {selected_vs} \cup ({ManualId(manual_vs')} \ {None})
             /\ shown' # "stopped" =>
                   /\ idx' = 0
                   /\ selected_vs' = IF ManualId(manual_vs') # None
                                     THEN ManualId(manual_vs') ELSE selected_vs
                   /\ ManualId(manual_vs') # None => shown' = "chat"
             /\ messages' = messages
             /\ ManualId(manual_vs') = None => file_name_by_id' = file_name_by_id
       /\ (pc = "upload_existing" /\ "list_info" \in notices') =>
             /\ pc' \in {"upload_existing", "rerun"}
             /\ pc' = "rerun" => vs_list_cache' = << <<>> >>
             /\ selected_vs' = selected_vs
             /\ messages' = messages
       /\ (pc = "idle" /\ "files_warning" \in notices') =>
             /\ file_name_by_id' = file_name_by_id
             /\ IsPrefix(messages, messages')
             /\ selected_vs' # None
             /\ pc' \in {"idle", "upload_existing", "upload_new", "stream", "answer"}
       /\ (pc = "idle" /\ last' = "ask" /\ vs_list_cache' = << <<>> >>
              /\ ManualId(manual_vs') # None) =>
             /\ active_vs' = ManualId(manual_vs')
             /\ calls' = <<>> => shown' = "stopped"
             /\ calls' # <<>> => calls'[1].vs = ManualId(manual_vs')
    ]_vars

\* After listing the stores failed, the user entered an identifier by hand,
\* asked a question, and it was answered from that store.
Wit_C14_ManualAfterFailure ==
    /\ pc = "idle"
    /\ vs_list_cache = << <<>> >>
    /\ selected_vs = "vs_manual"
    /\ last = "ask"
    /\ shown = "answer"
    /\ calls # <<>>
    /\ calls[1].vs = "vs_manual"

\* The deltas of the delta events among evs, one after the other in arrival
\* order.
RECURSIVE DeltasOf(_)
DeltasOf(evs) ==
    IF evs = <<>> THEN <<>>
    ELSE (IF evs[1].type = "response.output_text.delta" THEN evs[1].delta ELSE <<>>)
         \o DeltasOf(Tail(evs))

\* C16: while the stream is consumed, the buffer is before and after each
\* event the concatenation of the deltas received so far in arrival order: a
\* delta event extends the buffer by its delta (the earlier buffer is a
\* prefix of the later one) and an event of another type leaves it as it is.
Thm_C16_BufferIsDeltas ==
    [][(pc = "stream" /\ pc' = "stream") =>
        LET e == events'[Len(events')] IN
        /\ events' = Append(events, e)
        /\ streamed = DeltasOf(events)
        /\ streamed' = DeltasOf(events')
        /\ IsPrefix(streamed, streamed')
        /\ e.type = "response.output_text.delta" => streamed' = streamed \o e.delta
        /\ e.type # "response.output_text.delta" => streamed' = streamed
    ]_vars

\* The stream has delivered two different deltas and the buffer holds the
\* first followed by the second.
Wit_C16_TwoDeltas ==
    /\ pc = "stream"
    /\ Len(events) = 2
    /\ events[1].type = "response.output_text.delta"
    /\ events[2].type = "response.output_text.delta"
    /\ events[1].delta # events[2].delta
    /\ streamed = events[1].delta \o events[2].delta

\* A completed event is among the events evs.
Completed(evs) == \E i \in 1..Len(evs) : evs[i].type = "response.completed"

\* C17: a submitted question makes one call, streaming or not as the mode
\* says (none only when the run is stopped on a user interaction before the
\* call); no call is made while the stream is consumed; the fallback call is
\* made only when the stream has ended (no event is consumed after it)
\* without a completed event, after exactly one streaming call, and never
\* when a completed event was delivered; so a question makes at most two
\* calls in streaming mode and exactly one otherwise.
Thm_C17_FallbackOnlyAfterStream ==
    [][/\ (pc = "idle" /\ last' = "ask" /\ active_vs' # None) =>
             /\ calls' \in {<<>>, << [api |-> IF stream_output' THEN "stream"
                                               ELSE "create",
                                      vs |-> active_vs'] >>}
             /\ calls' = <<>> => (shown' = "stopped" /\ pc' = "idle")
       /\ (pc = "stream" /\ pc' = "stream") => calls' = calls
       /\ (pc = "stream" /\ pc' # "stream") =>
             /\ calls = << [api |-> "stream", vs |-> active_vs] >>
             /\ Completed(events) => calls' = calls
             /\ calls' # calls =>
                   /\ ~Completed(events)
                   /\ calls' = Append(calls, [api |-> "create", vs |-> active_vs])
                   /\ pc' \in {"idle", "answer"}
                   /\ events' = <<>>
       /\ pc \notin {"idle", "stream"} => calls' \in {calls, <<>>}
       /\ Len(calls') <= 2
    ]_vars

\* A stream ended without a completed event, the fallback call was made
\* against the same store, and it raised.
Wit_C17_FallbackIssued ==
    /\ pc = "idle"
    /\ last = "ask"
    /\ Len(calls) = 2
    /\ calls[1].api = "stream"
    /\ calls[2].api = "create"
    /\ calls[1].vs = calls[2].vs
    /\ shown = "exception"

\* C18: every assistant turn of the transcript comes right after a user turn
\* that carries the question (so no two assistant turns are consecutive and a
\* question has at most one answer), and once a query has been issued for a
\* question its user turn is in the transcript: it is the last turn while the
\* answer is awaited or after the query failed or the run was stopped, and
\* the turn before the answer otherwise.
Thm_C18_AnswerFollowsQuestion ==
    /\ \A i \in 1..Len(messages) :
          messages[i].role = "assistant" =>
              /\ i > 1
              /\ messages[i - 1] = [role |-> "user", content |-> Question]
    /\ calls # <<>> =>
          /\ messages # <<>>
          /\ shown \in {"streaming", "pending", "stopped", "exception"} =>
                LastTurn(messages) = [role |-> "user", content |-> Question]
          /\ shown = "answer" =>
                /\ Len(messages) >= 2
                /\ LastTurn(messages).role = "assistant"
          /\ shown \in {"streaming", "pending", "stopped", "exception", "answer"}

\* A question whose query failed was followed by a question that was
\* answered: two user turns, then the one assistant turn.
Wit_C18_FailedThenAnswered ==
    /\ pc = "idle"
    /\ Len(messages) = 3
    /\ messages[1].role = "user"
    /\ messages[2].role = "user"
    /\ messages[3].role = "assistant"
    /\ calls # <<>>

\* C19: a run whose query succeeded (the last response id is set to the id
\* of the terminal response) ends with the reconciled text of that response
\* as the last assistant turn of the transcript, whatever way the response
\* came; a query that fails leaves the last response id unchanged; and no
\* query call carries a response id.
Cex_C19_LastResponseId ==
    [][/\ (pc = "answer" /\ pc' = "idle") =>
             /\ last_response_id' = resp[1].id
             /\ LastTurn(messages') =
                   [role |-> "assistant",
                    content |-> ReconciledText(resp[1], file_name_by_id')]
       /\ shown' = "exception" => last_response_id' = last_response_id
       /\ \A i \in 1..Len(calls') : DOMAIN calls'[i] = {"api", "vs"}
    ]_vars

\* C20: the active index, once set, is never none again; a run whose
\* create-store call failed leaves the active index as it was; and the
\* calls made for a question are all issued against the index that was
\* active when the question was submitted.
Cex_C20_ActiveIndexStable ==
    [][/\ selected_vs # None => selected_vs' # None
       /\ (pc = "idle" /\ last' = "create_failed") => selected_vs' = selected_vs
       /\ (pc = "idle" /\ last' = "ask") =>
             \A i \in 1..Len(calls') : calls'[i].vs = selected_vs
       /\ pc = "stream" =>
             \A i \in 1..Len(calls') : calls'[i].vs = calls[1].vs
    ]_vars

====
